---------------------------- MODULE Spec2Model ----------------------------
(***************************************************************************)
(* A model of the OpenAlex MCP server (src/openalex_mcp_server.py): the    *)
(* two tools search_openalex and fetch_openalex, the request helper        *)
(* _make_request, the identifier normalisation inside fetch_openalex, the  *)
(* filter and sort construction inside search_openalex, and the response   *)
(* formatters.                                                             *)
(*                                                                         *)
(* Strings that the code inspects (startswith, replace, strip, "in") are   *)
(* sequences of tokens; every token is a piece of text that none of the    *)
(* code's patterns can straddle, so a character-level test of the code is  *)
(* a token-level test here.                                                *)
(***************************************************************************)
EXTENDS Integers, Sequences, FiniteSets, TLC

(***************************************************************************)
(* Bounds of the model.                                                    *)
(***************************************************************************)
\* longest identifier, in tokens
MaxLen == 3
\* number of identifiers a batch may exceed its limit by
MaxOver == 2
\* the largest position in an abstract_inverted_index
MaxPos == 3
\* the most positions one word of an index has
MaxOccur == 2
\* the tool invocations in progress at once
MaxCalls == 2
\* the largest limit a search is called with
MaxLimit == 52

(***************************************************************************)
(* Text.                                                                   *)
(***************************************************************************)
\* the pieces identifiers are made of
Tokens ==
  {" ", "https://openalex.org/", "https://", "http://", "doi.org/",
   "dx.doi.org/", "orcid.org/", "10.1/x", "0000-1", "W1"}

\* "https://openalex.org/"
CatalogPrefix == <<"https://openalex.org/">>
\* "https://doi.org/"
DoiPrefix == <<"https://", "doi.org/">>
\* "https://orcid.org/"
OrcidPrefix == <<"https://", "orcid.org/">>

\* the tokens whose text contains "doi.org"
DoiHostTokens == {"doi.org/", "dx.doi.org/"}

\* all strings of at most n tokens
RECURSIVE StringsUpTo(_)
StringsUpTo(n) ==
  IF n = 0 THEN {<<>>}
  ELSE LET shorter == StringsUpTo(n - 1)
       IN  shorter \cup {Append(s, t) : s \in {u \in shorter : Len(u) = n - 1}, t \in Tokens}

\* str.startswith(p)
StartsWith(s, p) ==
  /\ Len(s) >= Len(p)
  /\ SubSeq(s, 1, Len(p)) = p

\* str.startswith of a literal that lies inside one token
StartsWithToken(s, toks) ==
  /\ Len(s) >= 1
  /\ s[1] \in toks

\* "doi.org" in str
ContainsDoiHost(s) == \E i \in 1..Len(s) : s[i] \in DoiHostTokens

\* str.lstrip()
RECURSIVE LStrip(_)
LStrip(s) ==
  IF Len(s) > 0 /\ s[1] = " " THEN LStrip(Tail(s)) ELSE s

\* str.rstrip()
RECURSIVE RStrip(_)
RStrip(s) ==
  IF Len(s) > 0 /\ s[Len(s)] = " " THEN RStrip(SubSeq(s, 1, Len(s) - 1)) ELSE s

\* str.strip()
Strip(s) == RStrip(LStrip(s))

\* str.replace(p, ""): every non-overlapping occurrence, left to right
RECURSIVE RemoveAll(_, _)
RemoveAll(s, p) ==
  IF Len(s) < Len(p) THEN s
  ELSE IF SubSeq(s, 1, Len(p)) = p
       THEN RemoveAll(SubSeq(s, Len(p) + 1, Len(s)), p)
       ELSE <<s[1]>> \o RemoveAll(Tail(s), p)

\* number of tokens of s that contain "doi.org"
RECURSIVE DoiHostCount(_)
DoiHostCount(s) ==
  IF Len(s) = 0 THEN 0
  ELSE (IF s[1] \in DoiHostTokens THEN 1 ELSE 0) + DoiHostCount(Tail(s))

(***************************************************************************)
(* Entity types.                                                           *)
(***************************************************************************)
\* a mutation: search also knows the singular spelling of works
MutEntityTypesWithWork ==
  [works |-> "works", authors |-> "authors", sources |-> "sources",
   institutions |-> "institutions", topics |-> "topics",
   publishers |-> "publishers", funders |-> "funders",
   continents |-> "continents", countries |-> "countries", work |-> "works"]

\* ENTITY_TYPES: the collection each search entity type maps to
ENTITY_TYPES ==
  [works |-> "works", authors |-> "authors", sources |-> "sources",
   institutions |-> "institutions", topics |-> "topics",
   publishers |-> "publishers", funders |-> "funders",
   continents |-> "continents", countries |-> "countries"]

\* ENTITY_TYPE_SINGULAR: the collection each fetch entity type maps to
ENTITY_TYPE_SINGULAR ==
  [work |-> "works", author |-> "authors", source |-> "sources",
   institution |-> "institutions", topic |-> "topics",
   publisher |-> "publishers", funder |-> "funders",
   continent |-> "continents", country |-> "countries"]

(***************************************************************************)
(* Identifier normalisation of fetch_openalex.                             *)
(***************************************************************************)
\* id_clean after strip() and the removal of the catalog URL prefix
StripCatalog(identifier) ==
  LET id_clean == Strip(identifier)
  IN  IF StartsWith(id_clean, CatalogPrefix)
      THEN RemoveAll(id_clean, CatalogPrefix)
      ELSE id_clean

\* the DOI step
DoiRewrite(entity_type, id_clean) ==
  IF entity_type = "work"
     /\ (StartsWithToken(id_clean, {"10.1/x"}) \/ ContainsDoiHost(id_clean))
  THEN IF StartsWith(id_clean, DoiPrefix) THEN id_clean
       ELSE IF StartsWithToken(id_clean, {"doi.org/"}) THEN <<"https://">> \o id_clean
       ELSE DoiPrefix \o id_clean
  ELSE id_clean

\* a mutation: the ORCID rewrite is applied whatever the entity type
MutOrcidRewriteAnyType(entity_type, id_clean) ==
  IF StartsWithToken(id_clean, {"0000-1"})
  THEN OrcidPrefix \o id_clean
  ELSE id_clean

\* the ORCID step
OrcidRewrite(entity_type, id_clean) ==
  IF entity_type = "author" /\ StartsWithToken(id_clean, {"0000-1"})
  THEN OrcidPrefix \o id_clean
  ELSE id_clean

\* the identifier fetch_openalex puts in the request path
NormalizeId(entity_type, identifier) ==
  OrcidRewrite(entity_type, DoiRewrite(entity_type, StripCatalog(identifier)))

(***************************************************************************)
(* JSON values.  Every value carries its type in t and its content in a    *)
(* field of its own, so two values of different types are simply unequal.  *)
(***************************************************************************)
JNull == [t |-> "null"]
JStr(s) == [t |-> "str", s |-> s]
JNum(n) == [t |-> "num", n |-> n]
JBool(b) == [t |-> "bool", b |-> b]
JObj(o) == [t |-> "obj", o |-> o]
JList(l) == [t |-> "list", l |-> l]

\* {} : the mapping with no key
NoKeys == [k \in {} |-> JNull]
EmptyObj == JObj(NoKeys)
EmptyList == JList(<<>>)
EmptyStr == JStr(<<>>)

IsNull(v) == v.t = "null"
IsStr(v) == v.t = "str"
IsObj(v) == v.t = "obj"
IsList(v) == v.t = "list"

\* Python truthiness: bool(v)
Truthy(v) ==
  CASE v.t = "null" -> FALSE
    [] v.t = "str" -> Len(v.s) > 0
    [] v.t = "num" -> v.n # 0
    [] v.t = "bool" -> v.b
    [] v.t = "obj" -> DOMAIN v.o # {}
    [] v.t = "list" -> Len(v.l) > 0

\* d.get(k) and d.get(k, default) on a mapping d
Get(d, k) == IF k \in DOMAIN d THEN d[k] ELSE JNull
GetD(d, k, default) == IF k \in DOMAIN d THEN d[k] ELSE default

\* v.get(k) on a JSON value: meaningful when v is an object
VGet(v, k) == IF IsObj(v) THEN Get(v.o, k) ELSE JNull

\* (x or {})
OrEmptyObj(v) == IF Truthy(v) THEN v ELSE EmptyObj

\* d.get(k1, {}).get(k2): raises AttributeError when d[k1] is not a mapping
Get2(d, k1, k2) == VGet(GetD(d, k1, EmptyObj), k2)
Get2Raises(d, k1) == ~IsObj(GetD(d, k1, EmptyObj))

\* lst[:n]
Take(l, n) == SubSeq(l, 1, IF Len(l) < n THEN Len(l) ELSE n)

\* [x.get(k) for x in d.get(key, [])[:n]]
NamesOf(d, key, k, n) ==
  LET v == GetD(d, key, EmptyList)
      l == IF IsList(v) THEN Take(v.l, n) ELSE <<>>
  IN  JList([i \in 1..Len(l) |-> VGet(l[i], k)])
\* it raises when the value is not a sequence or an element is not a mapping
NamesOfRaises(d, key) ==
  LET v == GetD(d, key, EmptyList)
  IN  \/ ~IsList(v)
      \/ \E i \in 1..Len(v.l) : ~IsObj(v.l[i])

\* d.get("id", "").replace("https://openalex.org/", "")
ShortId(d) ==
  LET v == GetD(d, "id", EmptyStr)
  IN  IF IsStr(v) THEN JStr(RemoveAll(v.s, CatalogPrefix)) ELSE JNull
ShortIdRaises(d) == ~IsStr(GetD(d, "id", EmptyStr))

\* the text after the last "/" of a token
AfterSlash(tok) ==
  CASE tok \in {"https://openalex.org/", "https://", "http://", "doi.org/",
                "dx.doi.org/", "orcid.org/", "countries/"} -> <<>>
    [] tok = "10.1/x" -> <<"x">>
    [] OTHER -> <<tok>>
HasSlash(tok) ==
  tok \in {"https://openalex.org/", "https://", "http://", "doi.org/",
           "dx.doi.org/", "orcid.org/", "countries/", "10.1/x"}

\* str.split("/")[-1]
RECURSIVE LastSegment(_)
LastSegment(s) ==
  IF Len(s) = 0 THEN <<>>
  ELSE IF \E i \in 2..Len(s) : HasSlash(s[i]) THEN LastSegment(Tail(s))
  ELSE IF Len(s) = 1 THEN AfterSlash(s[1])
  ELSE AfterSlash(s[1]) \o Tail(s)

(***************************************************************************)
(* Response formatters.  Each formatter is a pair: the mapping it returns  *)
(* and the condition under which the Python expression raises instead      *)
(* (AttributeError, TypeError, KeyError, IndexError).                      *)
(***************************************************************************)
\* a mutation: a paper without authors has no first author at all
MutFirstAuthorNull(paper) ==
  LET authorships == GetD(paper, "authorships", EmptyList)
  IN  IF Truthy(authorships) /\ IsList(authorships) /\ IsObj(authorships.l[1])
      THEN VGet(GetD(authorships.l[1].o, "author", EmptyObj), "display_name")
      ELSE JNull

\* authorships[0].get("author", {}).get("display_name") if authorships else "Unknown"
FirstAuthor(paper) ==
  LET authorships == GetD(paper, "authorships", EmptyList)
  IN  IF Truthy(authorships)
      THEN IF IsList(authorships) /\ IsObj(authorships.l[1])
           THEN VGet(GetD(authorships.l[1].o, "author", EmptyObj), "display_name")
           ELSE JNull
      ELSE JStr(<<"Unknown">>)
FirstAuthorRaises(paper) ==
  LET authorships == GetD(paper, "authorships", EmptyList)
  IN  /\ Truthy(authorships)
      /\ \/ ~IsList(authorships)
         \/ ~IsObj(authorships.l[1])
         \/ ~IsObj(GetD(authorships.l[1].o, "author", EmptyObj))

\* len(authorships)
AuthorCount(paper) ==
  LET authorships == GetD(paper, "authorships", EmptyList)
  IN  CASE IsList(authorships) -> JNum(Len(authorships.l))
        [] IsStr(authorships) -> JNum(Len(authorships.s))
        [] IsObj(authorships) -> JNum(Cardinality(DOMAIN authorships.o))
        [] OTHER -> JNull
AuthorCountRaises(paper) ==
  GetD(paper, "authorships", EmptyList).t \in {"null", "num", "bool"}

\* primary_location = paper.get("primary_location", {}) or {}
PrimaryLocation(paper) == OrEmptyObj(GetD(paper, "primary_location", EmptyObj))
\* source = primary_location.get("source", {}) or {}
PrimarySource(paper) ==
  OrEmptyObj(IF IsObj(PrimaryLocation(paper))
             THEN GetD(PrimaryLocation(paper).o, "source", EmptyObj)
             ELSE EmptyObj)
PrimarySourceRaises(paper) ==
  \/ ~IsObj(PrimaryLocation(paper))
  \/ ~IsObj(PrimarySource(paper))

\* _format_paper_brief
FormatPaperBriefRaises(paper) ==
  \/ FirstAuthorRaises(paper)
  \/ PrimarySourceRaises(paper)
  \/ ShortIdRaises(paper)
  \/ AuthorCountRaises(paper)
  \/ Get2Raises(paper, "open_access")
FormatPaperBrief(paper) ==
  [id |-> ShortId(paper),
   title |-> Get(paper, "title"),
   doi |-> Get(paper, "doi"),
   publication_date |-> Get(paper, "publication_date"),
   cited_by_count |-> Get(paper, "cited_by_count"),
   first_author |-> FirstAuthor(paper),
   author_count |-> AuthorCount(paper),
   journal |-> VGet(PrimarySource(paper), "display_name"),
   is_oa |-> Get2(paper, "open_access", "is_oa")]

\* one element of the authors list of _format_paper_full
FullAuthor(authorship) ==
  [name |-> Get2(authorship, "author", "display_name"),
   orcid |-> Get2(authorship, "author", "orcid"),
   position |-> Get(authorship, "author_position"),
   institutions |-> NamesOf(authorship, "institutions", "display_name",
                            Len(GetD(authorship, "institutions", EmptyList).l)),
   countries |-> GetD(authorship, "countries", EmptyList)]
FullAuthorRaises(authorship) ==
  \/ Get2Raises(authorship, "author")
  \/ NamesOfRaises(authorship, "institutions")

\* f"{first_page}-{last_page}".strip("-")
PageText(v) ==
  CASE IsNull(v) -> <<"None">>
    [] IsStr(v) -> v.s
    [] OTHER -> <<"?">>
Pages(paper) ==
  LET first == PageText(Get2(paper, "biblio", "first_page"))
      last == PageText(Get2(paper, "biblio", "last_page"))
      f == IF "first_page" \in DOMAIN GetD(paper, "biblio", EmptyObj).o THEN first ELSE <<>>
      l == IF "last_page" \in DOMAIN GetD(paper, "biblio", EmptyObj).o THEN last ELSE <<>>
  IN  JStr(IF f = <<>> /\ l = <<>> THEN <<>>
           ELSE IF f = <<>> THEN l
           ELSE IF l = <<>> THEN f
           ELSE f \o <<"-">> \o l)

\* _format_paper_full
FormatPaperFullRaises(paper) ==
  LET authorships == GetD(paper, "authorships", EmptyList)
      primary_topic == OrEmptyObj(GetD(paper, "primary_topic", EmptyObj))
  IN  \/ ~IsList(authorships)
      \/ \E i \in 1..Len(authorships.l) :
           \/ ~IsObj(authorships.l[i])
           \/ FullAuthorRaises(authorships.l[i].o)
      \/ PrimarySourceRaises(paper)
      \/ ~IsObj(primary_topic)
      \/ NamesOfRaises(paper, "keywords")
      \/ ShortIdRaises(paper)
      \/ Get2Raises(paper, "citation_normalized_percentile")
      \/ Get2Raises(paper, "biblio")
      \/ Get2Raises(paper, "open_access")
      \/ Get2Raises(primary_topic.o, "field")
      \/ Get2Raises(primary_topic.o, "domain")
      \/ GetD(paper, "abstract_inverted_index", JNull).t \notin {"null", "obj"}

\* an abstract_inverted_index: a mapping that remembers the order of its keys
JIndex(order, positions) ==
  [t |-> "obj",
   o |-> [w \in {order[i] : i \in 1..Len(order)} |->
            JList([i \in 1..Len(positions[w]) |-> JNum(positions[w][i])])],
   order |-> order]

\* the (pos, word) pairs in the iteration order of the index
RECURSIVE WordPairs(_, _)
WordPairs(index, order) ==
  IF Len(order) = 0 THEN <<>>
  ELSE LET word == order[1]
           positions == index.o[word].l
       IN  [i \in 1..Len(positions) |-> [pos |-> positions[i].n, word |-> word]]
           \o WordPairs(index, Tail(order))

\* a mutation: the sort puts x before the pairs of the same pos
RECURSIVE MutInsertByPosBeforeTies(_, _)
MutInsertByPosBeforeTies(sorted, x) ==
  IF Len(sorted) = 0 THEN <<x>>
  ELSE IF sorted[Len(sorted)].pos < x.pos THEN Append(sorted, x)
  ELSE Append(MutInsertByPosBeforeTies(SubSeq(sorted, 1, Len(sorted) - 1), x),
              sorted[Len(sorted)])

\* list.sort(key=pos) is stable: x goes behind every pair whose pos is not larger
RECURSIVE InsertByPos(_, _)
InsertByPos(sorted, x) ==
  IF Len(sorted) = 0 THEN <<x>>
  ELSE IF sorted[Len(sorted)].pos <= x.pos THEN Append(sorted, x)
  ELSE Append(InsertByPos(SubSeq(sorted, 1, Len(sorted) - 1), x), sorted[Len(sorted)])

RECURSIVE SortByPos(_)
SortByPos(pairs) ==
  IF Len(pairs) = 0 THEN <<>>
  ELSE InsertByPos(SortByPos(SubSeq(pairs, 1, Len(pairs) - 1)), pairs[Len(pairs)])

\* " ".join(words)
RECURSIVE JoinWords(_)
JoinWords(pairs) ==
  IF Len(pairs) = 0 THEN <<>>
  ELSE IF Len(pairs) = 1 THEN <<pairs[1].word>>
  ELSE <<pairs[1].word, " ">> \o JoinWords(Tail(pairs))

\* _reconstruct_abstract
ReconstructAbstract(inverted_index) ==
  IF ~Truthy(inverted_index) THEN JNull
  ELSE JStr(JoinWords(SortByPos(WordPairs(inverted_index, inverted_index.order))))

FormatPaperFull(paper) ==
  LET authorships == GetD(paper, "authorships", EmptyList)
      primary_topic == OrEmptyObj(GetD(paper, "primary_topic", EmptyObj))
  IN  [id |-> ShortId(paper),
       doi |-> Get(paper, "doi"),
       title |-> Get(paper, "title"),
       publication_date |-> Get(paper, "publication_date"),
       publication_year |-> Get(paper, "publication_year"),
       language |-> Get(paper, "language"),
       type |-> Get(paper, "type"),
       cited_by_count |-> Get(paper, "cited_by_count"),
       fwci |-> Get(paper, "fwci"),
       is_top_1_percent |-> Get2(paper, "citation_normalized_percentile", "is_in_top_1_percent"),
       journal |-> VGet(PrimarySource(paper), "display_name"),
       publisher |-> VGet(PrimarySource(paper), "host_organization_name"),
       volume |-> Get2(paper, "biblio", "volume"),
       issue |-> Get2(paper, "biblio", "issue"),
       pages |-> Pages(paper),
       authors |-> JList([i \in 1..Len(authorships.l) |-> JObj(FullAuthor(authorships.l[i].o))]),
       is_oa |-> Get2(paper, "open_access", "is_oa"),
       oa_status |-> Get2(paper, "open_access", "oa_status"),
       pdf_url |-> VGet(PrimaryLocation(paper), "pdf_url"),
       primary_topic |-> VGet(primary_topic, "display_name"),
       field |-> Get2(primary_topic.o, "field", "display_name"),
       domain |-> Get2(primary_topic.o, "domain", "display_name"),
       keywords |-> NamesOf(paper, "keywords", "display_name", 8),
       referenced_works_count |-> Get(paper, "referenced_works_count"),
       abstract |-> ReconstructAbstract(Get(paper, "abstract_inverted_index"))]

\* _format_author
FormatAuthorRaises(author) ==
  \/ ShortIdRaises(author)
  \/ Get2Raises(author, "summary_stats")
  \/ NamesOfRaises(author, "affiliations")
  \/ NamesOfRaises(author, "topics")
FormatAuthor(author) ==
  [id |-> ShortId(author),
   name |-> Get(author, "display_name"),
   orcid |-> Get(author, "orcid"),
   works_count |-> Get(author, "works_count"),
   cited_by_count |-> Get(author, "cited_by_count"),
   h_index |-> Get2(author, "summary_stats", "h_index"),
   affiliations |-> NamesOf(author, "affiliations", "display_name", 3),
   topics |-> NamesOf(author, "topics", "display_name", 5)]

\* _format_source
FormatSourceRaises(source) == ShortIdRaises(source)
FormatSource(source) ==
  [id |-> ShortId(source),
   name |-> Get(source, "display_name"),
   issn |-> Get(source, "issn_l"),
   publisher |-> Get(source, "host_organization_name"),
   type |-> Get(source, "type"),
   works_count |-> Get(source, "works_count"),
   cited_by_count |-> Get(source, "cited_by_count"),
   is_oa |-> Get(source, "is_oa"),
   homepage_url |-> Get(source, "homepage_url")]

\* _format_institution
FormatInstitutionRaises(inst) ==
  \/ ShortIdRaises(inst)
  \/ Get2Raises(inst, "geo")
FormatInstitution(inst) ==
  [id |-> ShortId(inst),
   name |-> Get(inst, "display_name"),
   ror |-> Get(inst, "ror"),
   type |-> Get(inst, "type"),
   country |-> Get(inst, "country_code"),
   city |-> Get2(inst, "geo", "city"),
   works_count |-> Get(inst, "works_count"),
   cited_by_count |-> Get(inst, "cited_by_count"),
   homepage_url |-> Get(inst, "homepage_url"),
   image_url |-> Get(inst, "image_url")]

\* topic.get("keywords", [])[:10]
TopicKeywords(topic) ==
  LET v == GetD(topic, "keywords", EmptyList)
  IN  CASE IsList(v) -> JList(Take(v.l, 10))
        [] IsStr(v) -> JStr(Take(v.s, 10))
        [] OTHER -> JNull

\* _format_topic
FormatTopicRaises(topic) ==
  \/ ShortIdRaises(topic)
  \/ Get2Raises(topic, "subfield")
  \/ Get2Raises(topic, "field")
  \/ Get2Raises(topic, "domain")
  \/ GetD(topic, "keywords", EmptyList).t \notin {"list", "str"}
FormatTopic(topic) ==
  [id |-> ShortId(topic),
   name |-> Get(topic, "display_name"),
   description |-> Get(topic, "description"),
   works_count |-> Get(topic, "works_count"),
   cited_by_count |-> Get(topic, "cited_by_count"),
   subfield |-> Get2(topic, "subfield", "display_name"),
   field |-> Get2(topic, "field", "display_name"),
   domain |-> Get2(topic, "domain", "display_name"),
   keywords |-> TopicKeywords(topic)]

\* str.split("per-page=")[0]
RECURSIVE BeforePerPage(_)
BeforePerPage(s) ==
  IF Len(s) = 0 \/ s[1] = "per-page=" THEN <<>>
  ELSE <<s[1]>> \o BeforePerPage(Tail(s))

\* _format_publisher
FormatPublisherRaises(publisher) ==
  \/ ShortIdRaises(publisher)
  \/ /\ Truthy(Get(publisher, "sources_api_url"))
     /\ ~IsStr(Get(publisher, "sources_api_url"))
FormatPublisher(publisher) ==
  [id |-> ShortId(publisher),
   name |-> Get(publisher, "display_name"),
   alternate_titles |-> GetD(publisher, "alternate_titles", EmptyList),
   country_codes |-> GetD(publisher, "country_codes", EmptyList),
   works_count |-> Get(publisher, "works_count"),
   cited_by_count |-> Get(publisher, "cited_by_count"),
   sources_count |-> IF Truthy(Get(publisher, "sources_api_url"))
                        /\ IsStr(Get(publisher, "sources_api_url"))
                     THEN JStr(BeforePerPage(Get(publisher, "sources_api_url").s))
                     ELSE JNull,
   homepage_url |-> Get(publisher, "homepage_url")]

\* _format_funder
FormatFunderRaises(funder) == ShortIdRaises(funder)
FormatFunder(funder) ==
  [id |-> ShortId(funder),
   name |-> Get(funder, "display_name"),
   alternate_titles |-> GetD(funder, "alternate_titles", EmptyList),
   country_code |-> Get(funder, "country_code"),
   description |-> Get(funder, "description"),
   works_count |-> Get(funder, "works_count"),
   cited_by_count |-> Get(funder, "cited_by_count"),
   grants_count |-> Get(funder, "grants_count"),
   homepage_url |-> Get(funder, "homepage_url")]

\* geo.get("country_code") or geo.get("id", "").split("/")[-1]
GeoCode(geo) ==
  IF Truthy(Get(geo, "country_code")) THEN Get(geo, "country_code")
  ELSE IF IsStr(GetD(geo, "id", EmptyStr))
       THEN JStr(LastSegment(GetD(geo, "id", EmptyStr).s))
       ELSE JNull
GeoCodeRaises(geo) ==
  /\ ~Truthy(Get(geo, "country_code"))
  /\ ~IsStr(GetD(geo, "id", EmptyStr))

\* _format_geo
FormatGeoRaises(geo) == ShortIdRaises(geo) \/ GeoCodeRaises(geo)
FormatGeo(geo) ==
  [id |-> ShortId(geo),
   name |-> Get(geo, "display_name"),
   code |-> GeoCode(geo),
   works_count |-> Get(geo, "works_count"),
   cited_by_count |-> Get(geo, "cited_by_count")]

\* _format_entity_brief
FormatEntityBriefRaises(entity, entity_type) ==
  \/ ShortIdRaises(entity)
  \/ entity_type = "works" /\ FormatPaperBriefRaises(entity)
  \/ /\ entity_type = "topics"
     /\ Truthy(Get(entity, "field"))
     /\ ~IsObj(Get(entity, "field"))
  \/ entity_type \in {"continents", "countries"} /\ GeoCodeRaises(entity)
FormatEntityBrief(entity, entity_type) ==
  LET base == [id |-> ShortId(entity), name |-> Get(entity, "display_name")]
  IN  CASE entity_type = "works" -> FormatPaperBrief(entity)
        [] entity_type = "authors" ->
             [id |-> base.id, name |-> base.name,
              works_count |-> Get(entity, "works_count"),
              cited_by_count |-> Get(entity, "cited_by_count")]
        [] entity_type = "sources" ->
             [id |-> base.id, name |-> base.name,
              type |-> Get(entity, "type"),
              works_count |-> Get(entity, "works_count"),
              publisher |-> Get(entity, "host_organization_name")]
        [] entity_type = "institutions" ->
             [id |-> base.id, name |-> base.name,
              type |-> Get(entity, "type"),
              country |-> Get(entity, "country_code"),
              works_count |-> Get(entity, "works_count")]
        [] entity_type = "topics" ->
             [id |-> base.id, name |-> base.name,
              works_count |-> Get(entity, "works_count"),
              field |-> IF Truthy(Get(entity, "field"))
                        THEN VGet(Get(entity, "field"), "display_name")
                        ELSE JNull]
        [] entity_type = "publishers" ->
             [id |-> base.id, name |-> base.name,
              works_count |-> Get(entity, "works_count"),
              country_codes |-> GetD(entity, "country_codes", EmptyList)]
        [] entity_type = "funders" ->
             [id |-> base.id, name |-> base.name,
              works_count |-> Get(entity, "works_count"),
              country_code |-> Get(entity, "country_code")]
        [] entity_type \in {"continents", "countries"} ->
             [id |-> base.id, name |-> base.name,
              code |-> GeoCode(entity),
              works_count |-> Get(entity, "works_count")]
        [] OTHER -> base

\* _format_entity_full
FormatEntityFullRaises(entity, entity_type) ==
  CASE entity_type = "works" -> FormatPaperFullRaises(entity)
    [] entity_type = "authors" -> FormatAuthorRaises(entity)
    [] entity_type = "sources" -> FormatSourceRaises(entity)
    [] entity_type = "institutions" -> FormatInstitutionRaises(entity)
    [] entity_type = "topics" -> FormatTopicRaises(entity)
    [] entity_type = "publishers" -> FormatPublisherRaises(entity)
    [] entity_type = "funders" -> FormatFunderRaises(entity)
    [] entity_type \in {"continents", "countries"} -> FormatGeoRaises(entity)
    [] OTHER -> FALSE
FormatEntityFull(entity, entity_type) ==
  CASE entity_type = "works" -> FormatPaperFull(entity)
    [] entity_type = "authors" -> FormatAuthor(entity)
    [] entity_type = "sources" -> FormatSource(entity)
    [] entity_type = "institutions" -> FormatInstitution(entity)
    [] entity_type = "topics" -> FormatTopic(entity)
    [] entity_type = "publishers" -> FormatPublisher(entity)
    [] entity_type = "funders" -> FormatFunder(entity)
    [] entity_type \in {"continents", "countries"} -> FormatGeo(entity)
    [] OTHER -> entity
(***************************************************************************)
(* Optional arguments: None, or Some(v).                                   *)
(***************************************************************************)
None == [some |-> FALSE]
Some(v) == [some |-> TRUE, v |-> v]

\* "if x:" on an Optional[int]
TruthyInt(x) == x.some /\ x.v # 0
\* "if x:" on an Optional[str]
TruthyStr(x) == x.some /\ x.v # ""

(***************************************************************************)
(* Filter and sort construction of search_openalex.                        *)
(***************************************************************************)
\* datetime.datetime.now().year
CurrentYear == 2026

\* str.upper() of the country codes of the model
Upper(code) ==
  CASE code = "cn" -> "CN"
    [] code = "us" -> "US"
    [] OTHER -> code

\* the year clause, lines 457-462
YearClause(a) ==
  IF TruthyInt(a.year_from) /\ TruthyInt(a.year_to)
  THEN <<[field |-> "publication_year", lo |-> a.year_from.v, hi |-> a.year_to.v]>>
  ELSE IF TruthyInt(a.year_from)
  THEN <<[field |-> "publication_year", lo |-> a.year_from.v, hi |-> CurrentYear]>>
  ELSE IF TruthyInt(a.year_to)
  THEN <<[field |-> "publication_year", lo |-> 1900, hi |-> a.year_to.v]>>
  ELSE <<>>

\* a mutation: a false open_access flag counts as absent
MutOpenAccessClauseTruthy(a) ==
  IF a.open_access.some /\ a.open_access.v
  THEN <<[field |-> "is_oa", value |-> "true"]>>
  ELSE <<>>

\* f"is_oa:{str(open_access).lower()}"
OpenAccessClause(a) ==
  IF a.open_access.some
  THEN <<[field |-> "is_oa", value |-> IF a.open_access.v THEN "true" ELSE "false"]>>
  ELSE <<>>

\* a mutation: the country code is sent as it was given
MutCountryClauseAsGiven(a, path) ==
  IF TruthyStr(a.country)
  THEN <<[field |-> path, value |-> a.country.v]>>
  ELSE <<>>

\* the country clause on the field path of the entity type
CountryClause(a, path) ==
  IF TruthyStr(a.country)
  THEN <<[field |-> path, value |-> Upper(a.country.v)]>>
  ELSE <<>>

\* the institution clause on the field path of the entity type
InstitutionClause(a, path) ==
  IF TruthyStr(a.institution)
  THEN <<[field |-> path, value |-> a.institution.v]>>
  ELSE <<>>

\* a mutation: for works the country clause is put first
MutBuildFiltersCountryFirst(a) ==
  CASE a.entity_type = "works" ->
         CountryClause(a, "authorships.countries")
         \o YearClause(a) \o OpenAccessClause(a)
         \o InstitutionClause(a, "authorships.institutions.display_name.search")
    [] a.entity_type = "authors" ->
         CountryClause(a, "affiliations.institution.country_code")
         \o InstitutionClause(a, "affiliations.institution.display_name.search")
    [] a.entity_type = "institutions" ->
         CountryClause(a, "country_code")
    [] OTHER -> <<>>

\* filters, lines 452-486
BuildFilters(a) ==
  CASE a.entity_type = "works" ->
         YearClause(a) \o OpenAccessClause(a)
         \o CountryClause(a, "authorships.countries")
         \o InstitutionClause(a, "authorships.institutions.display_name.search")
    [] a.entity_type = "authors" ->
         CountryClause(a, "affiliations.institution.country_code")
         \o InstitutionClause(a, "affiliations.institution.display_name.search")
    [] a.entity_type = "institutions" ->
         CountryClause(a, "country_code")
    [] OTHER -> <<>>

\* a mutation: publication_date is sent for every entity type
MutSortParamAnyType(a) ==
  IF a.sort_by = "cited_by_count" THEN Some("cited_by_count:desc")
  ELSE IF a.sort_by = "publication_date"
  THEN Some("publication_date:desc")
  ELSE IF a.sort_by = "works_count" /\ a.entity_type # "works"
  THEN Some("works_count:desc")
  ELSE None

\* params["sort"], lines 492-497
SortParam(a) ==
  IF a.sort_by = "cited_by_count" THEN Some("cited_by_count:desc")
  ELSE IF a.sort_by = "publication_date" /\ a.entity_type = "works"
  THEN Some("publication_date:desc")
  ELSE IF a.sort_by = "works_count" /\ a.entity_type # "works"
  THEN Some("works_count:desc")
  ELSE None

\* a mutation: the page size is the limit, uncapped
MutPerPageNoCap(limit) == limit

\* min(limit, 50)
PerPage(limit) == IF limit < 50 THEN limit ELSE 50

\* params of search_openalex, lines 446-497; an absent key is None
SearchParams(a) ==
  [search |-> Some(a.query),
   per_page |-> Some(PerPage(a.limit)),
   filter |-> IF BuildFilters(a) # <<>> THEN Some(BuildFilters(a)) ELSE None,
   sort |-> SortParam(a),
   select |-> None]

(***************************************************************************)
(* The request helper.                                                     *)
(***************************************************************************)
\* OPENALEX_EMAIL, when the environment does not set it
OPENALEX_EMAIL == "openalex-mcp@example.com"
\* DEFAULT_PARAMS
DEFAULT_PARAMS == [mailto |-> Some(OPENALEX_EMAIL)]

\* params of a request that passes none
NoParams == [search |-> None, per_page |-> None, filter |-> None, sort |-> None, select |-> None]

\* BASE_URL
BASE_URL == "https://api.openalex.org"

\* the module-level configuration every invocation reads: BASE_URL and
\* DEFAULT_PARAMS
VARIABLE config

\* the configuration the module is loaded with
StartupConfig == [BASE_URL |-> BASE_URL, DEFAULT_PARAMS |-> DEFAULT_PARAMS]

\* {**DEFAULT_PARAMS, **(params or {})}: a key of params wins
AllParams(params) ==
  [k \in DOMAIN config.DEFAULT_PARAMS \cup DOMAIN params |->
     IF k \in DOMAIN params /\ params[k].some THEN params[k]
     ELSE IF k \in DOMAIN config.DEFAULT_PARAMS THEN config.DEFAULT_PARAMS[k]
     ELSE None]

\* a mutation: the merge is made in place, DEFAULT_PARAMS.update(params)
MutConfigAfterRequestInPlace(cfg, req) ==
  [cfg EXCEPT !.DEFAULT_PARAMS =
     [k \in {x \in DOMAIN req.params : req.params[x].some} |-> req.params[k]]]

\* the configuration after _make_request has built all_params: the merge
\* is a new dict, the module-level one is left as it was
ConfigAfterRequest(cfg, req) == cfg

\* the GET _make_request issues for an endpoint and params
GetRequest(collection, id, params) ==
  [collection |-> collection, id |-> id, params |-> AllParams(params)]

\* the outcome of _make_request for one response: the parsed JSON, or the
\* exception raise_for_status(), requests.get() or response.json() raises
MakeRequest(resp) ==
  CASE resp.kind = "conn" -> [ok |-> FALSE, exc |-> "ConnectionError"]
    [] resp.kind = "timeout" -> [ok |-> FALSE, exc |-> "Timeout"]
    [] resp.kind = "http" /\ resp.status >= 400 /\ resp.status < 600 ->
         [ok |-> FALSE, exc |-> "HTTPError", status |-> resp.status]
    [] resp.kind = "http" /\ ~resp.json -> [ok |-> FALSE, exc |-> "JSONDecodeError"]
    [] OTHER -> [ok |-> TRUE, data |-> resp.body]

\* str(e) of an HTTPError
ErrorText(status) ==
  CASE status = 400 -> "400 Client Error"
    [] status = 404 -> "404 Client Error"
    [] status = 429 -> "429 Client Error"
    [] status = 500 -> "500 Server Error"
    [] OTHER -> "HTTP Error"

(***************************************************************************)
(* What a tool invocation ends with, or goes on with.                      *)
(***************************************************************************)
\* return mapping
Returned(mapping) == [pc |-> "done", outcome |-> "returned", result |-> mapping]
\* an exception leaves the tool
Raised(exc) == [pc |-> "done", outcome |-> "raised", result |-> [exc |-> exc]]
\* the tool calls _make_request again and keeps what it has formatted
Awaiting(req, kept) ==
  [pc |-> "secondary", outcome |-> "none", result |-> kept, request |-> req]

(***************************************************************************)
(* search_openalex after its request, lines 500-511.                       *)
(***************************************************************************)
SearchResume(a, resp) ==
  LET got == MakeRequest(resp)
  IN  IF ~got.ok
      THEN IF got.exc = "HTTPError"
           THEN Returned([error |-> JStr(<<"search failed: ", ErrorText(got.status)>>)])
           ELSE Raised(got.exc)
      ELSE LET data == got.data.o
               results == GetD(data, "results", EmptyList)
           IN  IF ~IsList(results) THEN Raised("TypeError")
               ELSE IF \E i \in 1..Len(results.l) :
                         \/ ~IsObj(results.l[i])
                         \/ FormatEntityBriefRaises(results.l[i].o, a.entity_type)
               THEN Raised("AttributeError")
               ELSE IF Get2Raises(data, "meta") THEN Raised("AttributeError")
               ELSE Returned(
                      [total_count |-> Get2(data, "meta", "count"),
                       entity_type |-> JStr(<<a.entity_type>>),
                       results |-> JList([i \in 1..Len(results.l) |->
                                    JObj(FormatEntityBrief(results.l[i].o, a.entity_type))])])

(***************************************************************************)
(* fetch_openalex after its requests, lines 581-658.                       *)
(***************************************************************************)
\* the entity types include_related fetches something for
RelatedTypes == {"author", "source", "institution", "topic"}

\* the secondary request of include_related
RelatedRequest(entity_type, id) ==
  CASE entity_type = "author" ->
         GetRequest("works", None,
           [search |-> None, per_page |-> Some(5),
            filter |-> Some(<<[field |-> "author.id", ref |-> id]>>),
            sort |-> Some("cited_by_count:desc"),
            select |-> Some("id,title,doi,publication_date,cited_by_count,primary_location")])
    [] entity_type = "source" ->
         GetRequest("works", None,
           [search |-> None, per_page |-> Some(5),
            filter |-> Some(<<[field |-> "primary_location.source.id", ref |-> id]>>),
            sort |-> Some("cited_by_count:desc"),
            select |-> Some("id,title,doi,publication_date,cited_by_count,authorships")])
    [] entity_type = "institution" ->
         GetRequest("authors", None,
           [search |-> None, per_page |-> Some(5),
            filter |-> Some(<<[field |-> "affiliations.institution.id", ref |-> id]>>),
            sort |-> Some("cited_by_count:desc"),
            select |-> None])
    [] entity_type = "topic" ->
         GetRequest("works", None,
           [search |-> None, per_page |-> Some(5),
            filter |-> Some(<<[field |-> "primary_topic.id", ref |-> id]>>),
            sort |-> Some("cited_by_count:desc"),
            select |-> Some("id,title,doi,cited_by_count")])

\* a mutation: the related entities are always attached as top_authors
MutRelatedKeyAuthors(entity_type) == "top_authors"

\* the key the related entities are attached under
RelatedKey(entity_type) ==
  IF entity_type = "institution" THEN "top_authors" ELSE "top_works"

\* journal of an author's top work, line 601
TopWorkJournal(p) ==
  IF Truthy(Get(p, "primary_location"))
  THEN VGet(VGet(OrEmptyObj(Get(p, "primary_location")), "source"), "display_name")
  ELSE JNull
TopWorkJournalRaises(p) ==
  /\ Truthy(Get(p, "primary_location"))
  /\ \/ ~IsObj(Get(p, "primary_location"))
     \/ ~IsObj(GetD(Get(p, "primary_location").o, "source", EmptyObj))

\* first_author of a source's top work, line 618
TopWorkFirstAuthor(p) ==
  IF Truthy(Get(p, "authorships"))
  THEN VGet(GetD(Get(p, "authorships").l[1].o, "author", EmptyObj), "display_name")
  ELSE JNull
TopWorkFirstAuthorRaises(p) ==
  /\ Truthy(Get(p, "authorships"))
  /\ \/ ~IsList(Get(p, "authorships"))
     \/ ~IsObj(Get(p, "authorships").l[1])
     \/ ~IsObj(GetD(Get(p, "authorships").l[1].o, "author", EmptyObj))

\* one element of top_works or top_authors
RelatedItem(entity_type, p) ==
  CASE entity_type = "author" ->
         [id |-> ShortId(p), title |-> Get(p, "title"), doi |-> Get(p, "doi"),
          cited_by_count |-> Get(p, "cited_by_count"),
          journal |-> TopWorkJournal(p)]
    [] entity_type = "source" ->
         [id |-> ShortId(p), title |-> Get(p, "title"),
          cited_by_count |-> Get(p, "cited_by_count"),
          first_author |-> TopWorkFirstAuthor(p)]
    [] entity_type = "institution" ->
         [id |-> ShortId(p), name |-> Get(p, "display_name"),
          works_count |-> Get(p, "works_count"),
          cited_by_count |-> Get(p, "cited_by_count")]
    [] entity_type = "topic" ->
         [id |-> ShortId(p), title |-> Get(p, "title"),
          cited_by_count |-> Get(p, "cited_by_count")]
RelatedItemRaises(entity_type, p) ==
  \/ ShortIdRaises(p)
  \/ entity_type = "author" /\ TopWorkJournalRaises(p)
  \/ entity_type = "source" /\ TopWorkFirstAuthorRaises(p)

\* a mutation: the related entities are asked for even when the primary
\* request failed
MutFetchPrimaryResumeGoesOn(a, resp) ==
  LET got == MakeRequest(resp)
      endpoint_type == ENTITY_TYPE_SINGULAR[a.entity_type]
  IN  IF ~got.ok
      THEN IF got.exc = "HTTPError"
           THEN IF a.include_related /\ a.entity_type \in RelatedTypes
                THEN Awaiting(RelatedRequest(a.entity_type, JNull),
                              [error |-> JStr(<<"fetch failed: ", ErrorText(got.status)>>)])
                ELSE Returned([error |-> JStr(<<"fetch failed: ", ErrorText(got.status)>>)])
           ELSE Raised(got.exc)
      ELSE LET data == got.data.o
           IN  IF FormatEntityFullRaises(data, endpoint_type) THEN Raised("AttributeError")
               ELSE IF a.include_related /\ a.entity_type \in RelatedTypes
               THEN IF "id" \notin DOMAIN data THEN Raised("KeyError")
                    ELSE Awaiting(RelatedRequest(a.entity_type, data["id"]),
                                  FormatEntityFull(data, endpoint_type))
               ELSE Returned(FormatEntityFull(data, endpoint_type))

\* lines 581-583 and 586-655, after the primary request
FetchPrimaryResume(a, resp) ==
  LET got == MakeRequest(resp)
      endpoint_type == ENTITY_TYPE_SINGULAR[a.entity_type]
  IN  IF ~got.ok
      THEN IF got.exc = "HTTPError"
           THEN Returned([error |-> JStr(<<"fetch failed: ", ErrorText(got.status)>>)])
           ELSE Raised(got.exc)
      ELSE LET data == got.data.o
           IN  IF FormatEntityFullRaises(data, endpoint_type) THEN Raised("AttributeError")
               ELSE IF a.include_related /\ a.entity_type \in RelatedTypes
               THEN IF "id" \notin DOMAIN data THEN Raised("KeyError")
                    ELSE Awaiting(RelatedRequest(a.entity_type, data["id"]),
                                  FormatEntityFull(data, endpoint_type))
               ELSE Returned(FormatEntityFull(data, endpoint_type))

\* a mutation: when the secondary request fails the error is added to the
\* entity already formatted
MutFetchSecondaryResumeKeepsEntity(a, kept, resp) ==
  LET got == MakeRequest(resp)
  IN  IF ~got.ok
      THEN IF got.exc = "HTTPError"
           THEN Returned([error |-> JStr(<<"fetch failed: ", ErrorText(got.status)>>)] @@ kept)
           ELSE Raised(got.exc)
      ELSE LET results == GetD(got.data.o, "results", EmptyList)
           IN  IF ~IsList(results) THEN Raised("TypeError")
               ELSE IF \E i \in 1..Len(results.l) :
                         \/ ~IsObj(results.l[i])
                         \/ RelatedItemRaises(a.entity_type, results.l[i].o)
               THEN Raised("AttributeError")
               ELSE Returned(
                      [k \in {RelatedKey(a.entity_type)} |->
                         JList([i \in 1..Len(results.l) |->
                                 JObj(RelatedItem(a.entity_type, results.l[i].o))])]
                      @@ kept)

\* lines 589-653 and 655-658, after the secondary request
FetchSecondaryResume(a, kept, resp) ==
  LET got == MakeRequest(resp)
  IN  IF ~got.ok
      THEN IF got.exc = "HTTPError"
           THEN Returned([error |-> JStr(<<"fetch failed: ", ErrorText(got.status)>>)])
           ELSE Raised(got.exc)
      ELSE LET results == GetD(got.data.o, "results", EmptyList)
           IN  IF ~IsList(results) THEN Raised("TypeError")
               ELSE IF \E i \in 1..Len(results.l) :
                         \/ ~IsObj(results.l[i])
                         \/ RelatedItemRaises(a.entity_type, results.l[i].o)
               THEN Raised("AttributeError")
               ELSE Returned(
                      [k \in {RelatedKey(a.entity_type)} |->
                         JList([i \in 1..Len(results.l) |->
                                 JObj(RelatedItem(a.entity_type, results.l[i].o))])]
                      @@ kept)

(***************************************************************************)
(* The API's answers.                                                      *)
(***************************************************************************)
Str(x) == JStr(<<x>>)

\* d without key k, and d with null under key k
Without(d, k) == [x \in DOMAIN d \ {k} |-> d[x]]
WithNull(d, k) == [x \in DOMAIN d \cup {k} |-> IF x = k THEN JNull ELSE d[x]]
\* d with v under key k
With(d, k, v) == [x \in DOMAIN d \cup {k} |-> IF x = k THEN v ELSE d[x]]

\* the records obtained from d by dropping or nulling one of the keys
Degraded(d, keys) ==
  {d} \cup {Without(d, k) : k \in keys} \cup {WithNull(d, k) : k \in keys}

CatalogUrl(id) == JStr(CatalogPrefix \o <<id>>)

SampleAuthorship ==
  JObj([author |-> JObj([display_name |-> Str("Ada"), orcid |-> JNull]),
        author_position |-> Str("first"),
        institutions |-> JList(<<JObj([display_name |-> Str("MIT")])>>),
        countries |-> JList(<<Str("US")>>)])

SampleWork ==
  [id |-> CatalogUrl("W1"),
   title |-> Str("Deep learning"),
   doi |-> JStr(DoiPrefix \o <<"10.1/x">>),
   publication_date |-> Str("2024-01-01"),
   publication_year |-> JNum(2024),
   cited_by_count |-> JNum(7),
   authorships |-> JList(<<SampleAuthorship>>),
   primary_location |-> JObj([source |-> JObj([display_name |-> Str("Nature"),
                                               host_organization_name |-> Str("Springer")]),
                              pdf_url |-> JNull]),
   open_access |-> JObj([is_oa |-> JBool(TRUE), oa_status |-> Str("gold")]),
   biblio |-> JObj([volume |-> Str("1"), issue |-> JNull,
                    first_page |-> Str("10"), last_page |-> Str("20")]),
   primary_topic |-> JObj([display_name |-> Str("AI"),
                           field |-> JObj([display_name |-> Str("CS")]),
                           domain |-> JObj([display_name |-> Str("Physical Sciences")])]),
   keywords |-> JList(<<JObj([display_name |-> Str("learning")])>>),
   abstract_inverted_index |-> JIndex(<<"the", "cat">>, [the |-> <<0, 3>>, cat |-> <<1>>])]

SampleAuthor ==
  [id |-> CatalogUrl("A1"),
   display_name |-> Str("Ada"),
   orcid |-> JStr(OrcidPrefix \o <<"0000-1">>),
   works_count |-> JNum(3),
   cited_by_count |-> JNum(9),
   summary_stats |-> JObj([h_index |-> JNum(2)]),
   affiliations |-> JList(<<JObj([display_name |-> Str("MIT")])>>),
   topics |-> JList(<<JObj([display_name |-> Str("AI")])>>)]

SampleSource ==
  [id |-> CatalogUrl("S1"),
   display_name |-> Str("Nature"),
   issn_l |-> Str("0028-0836"),
   host_organization_name |-> Str("Springer"),
   type |-> Str("journal"),
   works_count |-> JNum(3),
   cited_by_count |-> JNum(9),
   is_oa |-> JBool(FALSE),
   homepage_url |-> JNull]

SampleInstitution ==
  [id |-> CatalogUrl("I1"),
   display_name |-> Str("MIT"),
   ror |-> Str("https://ror.org/042nb2s44"),
   type |-> Str("education"),
   country_code |-> Str("US"),
   geo |-> JObj([city |-> Str("Cambridge")]),
   works_count |-> JNum(3),
   cited_by_count |-> JNum(9)]

SampleTopic ==
  [id |-> CatalogUrl("T1"),
   display_name |-> Str("AI"),
   description |-> Str("about AI"),
   works_count |-> JNum(3),
   cited_by_count |-> JNum(9),
   subfield |-> JObj([display_name |-> Str("ML")]),
   field |-> JObj([display_name |-> Str("CS")]),
   domain |-> JObj([display_name |-> Str("Physical Sciences")]),
   keywords |-> JList(<<Str("learning")>>)]

SamplePublisher ==
  [id |-> CatalogUrl("P1"),
   display_name |-> Str("Elsevier"),
   alternate_titles |-> JList(<<>>),
   country_codes |-> JList(<<Str("NL")>>),
   works_count |-> JNum(3),
   cited_by_count |-> JNum(9),
   sources_api_url |-> JStr(<<"https://api/sources?", "per-page=", "25">>)]

SampleFunder ==
  [id |-> CatalogUrl("F1"),
   display_name |-> Str("NSF"),
   alternate_titles |-> JList(<<>>),
   country_code |-> Str("US"),
   works_count |-> JNum(3),
   cited_by_count |-> JNum(9),
   grants_count |-> JNum(4)]

SampleGeo ==
  [id |-> JStr(CatalogPrefix \o <<"countries/", "US">>),
   display_name |-> Str("United States"),
   works_count |-> JNum(3),
   cited_by_count |-> JNum(9)]

\* a complete record of a collection
Sample(collection) ==
  CASE collection = "works" -> SampleWork
    [] collection = "authors" -> SampleAuthor
    [] collection = "sources" -> SampleSource
    [] collection = "institutions" -> SampleInstitution
    [] collection = "topics" -> SampleTopic
    [] collection = "publishers" -> SamplePublisher
    [] collection = "funders" -> SampleFunder
    [] OTHER -> SampleGeo

\* the optional fields of a collection's records that the model varies
OptionalFields(collection) ==
  CASE collection = "works" ->
         {"id", "title", "authorships", "open_access", "primary_location"}
    [] collection = "authors" -> {"id", "summary_stats"}
    [] collection = "institutions" -> {"id", "geo"}
    [] collection = "topics" -> {"id", "field"}
    [] OTHER -> {"id"}

\* the records the API is taken to hold in a collection: a complete one, and
\* the same with one optional field absent or null
Records(collection) ==
  Degraded(Sample(collection), OptionalFields(collection))
  \cup IF collection = "works" THEN {With(SampleWork, "authorships", JList(<<>>))} ELSE {}

\* no request is in flight
NoRequest == [none |-> TRUE]

\* a 200 with a JSON body
Ok(body) == [kind |-> "http", status |-> 200, json |-> TRUE, body |-> body]

\* the answers that are no entity: HTTP errors, a body that is not JSON, a
\* connection failure, a timeout
Failures ==
  {[kind |-> "http", status |-> st] : st \in {400, 404, 429, 500}}
  \cup {[kind |-> "http", status |-> 200, json |-> FALSE],
        [kind |-> "conn"], [kind |-> "timeout"]}

\* a page of results
ListBody(records) ==
  JObj([meta |-> JObj([count |-> JNum(Len(records))]), results |-> JList(records)])

\* the answers to a request: a page for a collection, an entity for a path
Answers(req) ==
  IF req = NoRequest THEN {} ELSE
  Failures \cup
  IF req.id.some
  THEN {Ok(JObj(r)) : r \in Records(req.collection)}
  ELSE {Ok(ListBody(<<>>))}
       \cup {Ok(ListBody(<<JObj(r)>>)) : r \in Records(req.collection)}
       \cup {Ok(ListBody(<<JObj(SampleWork), JObj(r)>>)) :
               r \in IF req.collection = "works" THEN {SampleWork, Without(SampleWork, "title")}
                     ELSE {}}

\* the failures, one complete entity and one complete page
FewAnswers(req) ==
  IF req = NoRequest THEN {} ELSE
  {[kind |-> "http", status |-> 404], [kind |-> "timeout"]}
  \cup IF req.id.some
       THEN {Ok(JObj(Sample(req.collection)))}
       ELSE {Ok(ListBody(<<>>))}

(***************************************************************************)
(* batch_fetch_openalex.  The tool is called by src/test_server.py and is  *)
(* not among the source files; it is modelled from the specification       *)
(* (sections 4.5 and 8).                                                   *)
(***************************************************************************)
\* the largest batch
MaxBatch == 50

\* the identifiers of a batch of n: W1..Wn, or n DOIs
BatchIdentifiers(n, kind) == [i \in 1..n |-> [kind |-> kind, n |-> i]]

\* a mutation: the size check lets an oversized batch through
MutBatchRejectsEmptyOnly(identifiers) == Len(identifiers) = 0

\* the local validation: an empty or oversized list is rejected
BatchRejects(identifiers) ==
  Len(identifiers) = 0 \/ Len(identifiers) > MaxBatch

\* the single request of a batch: one OR-clause over all the identifiers
BatchRequest(a) ==
  GetRequest(ENTITY_TYPES[a.entity_type], None,
    [search |-> None, per_page |-> Some(Len(a.identifiers)),
     filter |-> Some(<<[field |-> IF a.identifiers[1].kind = "doi" THEN "doi" ELSE "openalex_id",
                        anyOf |-> a.identifiers]>>),
     sort |-> None, select |-> a.select])

\* after the request: the page is passed through
BatchResume(a, resp) ==
  LET got == MakeRequest(resp)
  IN  IF ~got.ok
      THEN IF got.exc = "HTTPError"
           THEN Returned([error |-> JStr(<<"batch failed: ", ErrorText(got.status)>>)])
           ELSE Raised(got.exc)
      ELSE Returned(got.data.o)

(***************************************************************************)
(* The state of the server: one tool invocation at a time.                 *)
(***************************************************************************)
VARIABLES
  pc,       \* "idle", "primary" or "secondary" (a request is in flight), "done"
  tool,     \* the tool invoked: "none", "search", "fetch", "batch"
  args,     \* its arguments
  request,  \* the request in flight, or the last one sent
  sent,     \* the requests _make_request has issued in this invocation
  history,  \* the answers they got
  outcome,  \* "none", "returned" or "raised"
  result    \* the mapping returned, the exception raised, or what fetch has
            \* formatted while its secondary request is in flight

vars == <<pc, tool, args, request, sent, history, outcome, result, config>>

\* the configuration once the action has issued its request, if it issues one
ConfigAfter(newpc, req) ==
  IF newpc \in {"primary", "secondary"} THEN ConfigAfterRequest(config, req) ELSE config

NoArgs == [none |-> TRUE]
NoResult == [none |-> TRUE]

Init ==
  /\ pc = "idle"
  /\ tool = "none"
  /\ args = NoArgs
  /\ request = NoRequest
  /\ sent = <<>>
  /\ history = <<>>
  /\ outcome = "none"
  /\ result = NoResult
  /\ config = StartupConfig

\* search_openalex up to its request, lines 440-501
SearchCall(a) ==
  /\ pc = "idle"
  /\ tool' = "search"
  /\ args' = a
  /\ history' = <<>>
  /\ IF a.entity_type \notin DOMAIN ENTITY_TYPES
     THEN /\ pc' = "done"
          /\ outcome' = "returned"
          /\ result' = [error |-> JStr(<<"unsupported entity type: ", a.entity_type>>)]
          /\ request' = NoRequest
          /\ sent' = <<>>
     ELSE /\ pc' = "primary"
          /\ outcome' = "none"
          /\ result' = NoResult
          /\ request' = GetRequest(ENTITY_TYPES[a.entity_type], None, SearchParams(a))
          /\ sent' = <<GetRequest(ENTITY_TYPES[a.entity_type], None, SearchParams(a))>>
  /\ config' = ConfigAfter(pc', request')

\* fetch_openalex up to its first request, lines 556-582
FetchCall(a) ==
  /\ pc = "idle"
  /\ tool' = "fetch"
  /\ args' = a
  /\ history' = <<>>
  /\ IF a.entity_type \notin DOMAIN ENTITY_TYPE_SINGULAR
     THEN /\ pc' = "done"
          /\ outcome' = "returned"
          /\ result' = [error |-> JStr(<<"unsupported entity type: ", a.entity_type>>)]
          /\ request' = NoRequest
          /\ sent' = <<>>
     ELSE /\ pc' = "primary"
          /\ outcome' = "none"
          /\ result' = NoResult
          /\ request' = GetRequest(ENTITY_TYPE_SINGULAR[a.entity_type],
                                   Some(NormalizeId(a.entity_type, a.identifier)), NoParams)
          /\ sent' = <<GetRequest(ENTITY_TYPE_SINGULAR[a.entity_type],
                                  Some(NormalizeId(a.entity_type, a.identifier)), NoParams)>>
  /\ config' = ConfigAfter(pc', request')

\* batch_fetch_openalex up to its request
BatchFetchCall(a) ==
  /\ pc = "idle"
  /\ tool' = "batch"
  /\ args' = a
  /\ history' = <<>>
  /\ IF BatchRejects(a.identifiers)
     THEN /\ pc' = "done"
          /\ outcome' = "raised"
          /\ result' = [exc |-> "ToolError"]
          /\ request' = NoRequest
          /\ sent' = <<>>
     ELSE /\ pc' = "primary"
          /\ outcome' = "none"
          /\ result' = NoResult
          /\ request' = BatchRequest(a)
          /\ sent' = <<BatchRequest(a)>>
  /\ config' = ConfigAfter(pc', request')

\* how the invocation goes on when its request is answered
Resume(resp) ==
  CASE tool = "search" -> SearchResume(args, resp)
    [] tool = "fetch" /\ pc = "primary" -> FetchPrimaryResume(args, resp)
    [] tool = "fetch" /\ pc = "secondary" -> FetchSecondaryResume(args, result, resp)
    [] tool = "batch" -> BatchResume(args, resp)

\* _make_request gets its answer and the tool runs on to its next request,
\* its return or its exception
Respond(resp) ==
  /\ pc \in {"primary", "secondary"}
  /\ history' = Append(history, resp)
  /\ LET next == Resume(resp)
     IN  /\ pc' = next.pc
         /\ outcome' = next.outcome
         /\ result' = next.result
         /\ request' = IF next.pc = "secondary" THEN next.request ELSE request
         /\ sent' = IF next.pc = "secondary" THEN Append(sent, next.request) ELSE sent
  /\ config' = ConfigAfter(pc', request')
  /\ UNCHANGED <<tool, args>>

\* the invocation is over; the server takes the next one
Finish ==
  /\ pc = "done"
  /\ pc' = "idle"
  /\ tool' = "none"
  /\ args' = NoArgs
  /\ request' = NoRequest
  /\ sent' = <<>>
  /\ history' = <<>>
  /\ outcome' = "none"
  /\ result' = NoResult
  /\ UNCHANGED config

(***************************************************************************)
(* The invocations the model makes.                                        *)
(***************************************************************************)
\* entity_type values: the supported ones, a spelling of the other tool, and
\* the type the server does not know
SearchTypes == DOMAIN ENTITY_TYPES \cup {"work", "keywords"}
FetchTypes == DOMAIN ENTITY_TYPE_SINGULAR \cup {"works", "keyword"}

SortKeys == {"cited_by_count", "publication_date", "relevance", "works_count"}

Limits == {0 - 1, 0, 10, 50, 51, MaxLimit}

\* a few searches, among them search("machine learning", "works", year_from=2024)
\* with every limit
SearchArgs ==
  [query : {"machine learning"}, entity_type : SearchTypes,
   year_from : {None, Some(2024)}, year_to : {None}, country : {None},
   institution : {None}, open_access : {None},
   sort_by : {"cited_by_count", "relevance"}, limit : {10}]
  \cup
  [query : {"machine learning"}, entity_type : {"works"},
   year_from : {Some(2024)}, year_to : {None}, country : {None},
   institution : {None}, open_access : {None},
   sort_by : {"cited_by_count"}, limit : Limits]

\* the searches over every combination of the convenience parameters
AllSearchArgs ==
  [query : {"machine learning"}, entity_type : SearchTypes,
   year_from : {None, Some(0), Some(2024)},
   year_to : {None, Some(0), Some(2025)},
   country : {None, Some(""), Some("cn"), Some("US")},
   institution : {None, Some("MIT")},
   open_access : {None, Some(TRUE), Some(FALSE)},
   sort_by : SortKeys, limit : {10, MaxLimit}]

\* a few fetches: a catalog ID, a catalog URL, a DOI, an ORCID
FetchArgs ==
  [identifier : {<<"W1">>, CatalogPrefix \o <<"W1">>, <<"10.1/x">>, <<"0000-1">>},
   entity_type : FetchTypes, include_related : BOOLEAN]

\* the fetches of every identifier of at most MaxLen tokens
AllFetchArgs ==
  [identifier : StringsUpTo(MaxLen), entity_type : FetchTypes, include_related : {FALSE}]

\* the batches of 0 .. MaxBatch + MaxOver identifiers
BatchArgs ==
  {[identifiers |-> BatchIdentifiers(n, kind), entity_type |-> et, select |-> None] :
     n \in 0..(MaxBatch + MaxOver), kind \in {"id", "doi"}, et \in {"works", "authors"}}

(***************************************************************************)
(* Specifications.                                                         *)
(***************************************************************************)
\* the two tools against every answer of the API
Next ==
  \/ pc = "idle" /\ \E a \in SearchArgs : SearchCall(a)
  \/ pc = "idle" /\ \E a \in FetchArgs : FetchCall(a)
  \/ \E resp \in Answers(request) : Respond(resp)
  \/ Finish

Spec == Init /\ [][Next]_vars

\* the two tools when every request is answered in the end: requests.get is
\* called with timeout=30, so it returns a response or raises
SpecLive == Init /\ [][Next]_vars /\ WF_vars(\E resp \in Answers(request) : Respond(resp))

\* fetch_openalex over every identifier
NextNormalize ==
  \/ pc = "idle" /\ \E a \in AllFetchArgs : FetchCall(a)
  \/ \E resp \in FewAnswers(request) : Respond(resp)
  \/ Finish

SpecNormalize == Init /\ [][NextNormalize]_vars

\* search_openalex over every combination of its parameters
NextSearch ==
  \/ pc = "idle" /\ \E a \in AllSearchArgs : SearchCall(a)
  \/ \E resp \in FewAnswers(request) : Respond(resp)
  \/ Finish

SpecSearch == Init /\ [][NextSearch]_vars

\* batch_fetch_openalex over every batch size
NextBatch ==
  \/ pc = "idle" /\ \E a \in BatchArgs : BatchFetchCall(a)
  \/ \E resp \in FewAnswers(request) : Respond(resp)
  \/ Finish

SpecBatch == Init /\ [][NextBatch]_vars

\* the position lists of one word: at most MaxOccur positions in 0 .. MaxPos,
\* in any order
RECURSIVE PositionLists(_)
PositionLists(n) ==
  IF n = 0 THEN {<<>>}
  ELSE LET shorter == PositionLists(n - 1)
       IN  shorter \cup {Append(l, p) : l \in {u \in shorter : Len(u) = n - 1}, p \in 0..MaxPos}

\* the inverted indexes over two words, in either key order
Indexes ==
  {JIndex(order, positions) :
     order \in {<<>>, <<"the">>, <<"cat">>, <<"the", "cat">>, <<"cat", "the">>},
     positions \in [{"the", "cat"} -> PositionLists(MaxOccur)]}

\* the works the API answers with: every index, no index, a null index, and
\* the same without a title
AbstractAnswers(req) ==
  IF req = NoRequest THEN {} ELSE
  FewAnswers(req)
  \cup {Ok(JObj(With(w, "abstract_inverted_index", index))) :
          w \in {SampleWork, Without(SampleWork, "title")}, index \in Indexes}
  \cup {Ok(JObj(Without(SampleWork, "abstract_inverted_index"))),
        Ok(JObj(WithNull(SampleWork, "abstract_inverted_index")))}

\* fetch_openalex("W1", "work")
AbstractFetchArgs ==
  {[identifier |-> <<"W1">>, entity_type |-> "work", include_related |-> FALSE]}

\* fetch_openalex of a work over every abstract index
NextAbstract ==
  \/ pc = "idle" /\ \E a \in AbstractFetchArgs : FetchCall(a)
  \/ pc = "primary" /\ \E resp \in AbstractAnswers(request) : Respond(resp)
  \/ Finish

SpecAbstract == Init /\ [][NextAbstract]_vars

(***************************************************************************)
(* Concurrent invocations.  The server may run several tool calls at once; *)
(* they share the module-level configuration and nothing else.  Here every *)
(* variable but config holds one value per invocation, and the steps of    *)
(* the invocations interleave at their requests.                           *)
(***************************************************************************)
Invocations == 1..MaxCalls

\* what a call of search_openalex or fetch_openalex starts with: the error
\* mapping of an unsupported entity type, or its first request
StartOf(t, a) ==
  LET known == IF t = "search" THEN ENTITY_TYPES ELSE ENTITY_TYPE_SINGULAR
  IN  IF a.entity_type \notin DOMAIN known
      THEN [pc |-> "done", outcome |-> "returned",
            result |-> [error |-> JStr(<<"unsupported entity type: ", a.entity_type>>)],
            request |-> NoRequest]
      ELSE [pc |-> "primary", outcome |-> "none", result |-> NoResult,
            request |-> IF t = "search"
                        THEN GetRequest(known[a.entity_type], None, SearchParams(a))
                        ELSE GetRequest(known[a.entity_type],
                                        Some(NormalizeId(a.entity_type, a.identifier)),
                                        NoParams)]

\* how an invocation goes on when its request is answered
ResumeOf(t, p, a, kept, resp) ==
  CASE t = "search" -> SearchResume(a, resp)
    [] t = "fetch" /\ p = "primary" -> FetchPrimaryResume(a, resp)
    [] t = "fetch" /\ p = "secondary" -> FetchSecondaryResume(a, kept, resp)

InitConcurrent ==
  /\ pc = [i \in Invocations |-> "idle"]
  /\ tool = [i \in Invocations |-> "none"]
  /\ args = [i \in Invocations |-> NoArgs]
  /\ request = [i \in Invocations |-> NoRequest]
  /\ sent = [i \in Invocations |-> <<>>]
  /\ history = [i \in Invocations |-> <<>>]
  /\ outcome = [i \in Invocations |-> "none"]
  /\ result = [i \in Invocations |-> NoResult]
  /\ config = StartupConfig

\* invocation i is called and runs up to its first request
ConcurrentCall(i, t, a) ==
  /\ pc[i] = "idle"
  /\ LET start == StartOf(t, a)
     IN  /\ pc' = [pc EXCEPT ![i] = start.pc]
         /\ outcome' = [outcome EXCEPT ![i] = start.outcome]
         /\ result' = [result EXCEPT ![i] = start.result]
         /\ request' = [request EXCEPT ![i] = start.request]
         /\ sent' = [sent EXCEPT ![i] = IF start.pc = "primary" THEN <<start.request>> ELSE <<>>]
         /\ config' = IF start.pc = "primary"
                      THEN ConfigAfterRequest(config, start.request) ELSE config
  /\ tool' = [tool EXCEPT ![i] = t]
  /\ args' = [args EXCEPT ![i] = a]
  /\ history' = [history EXCEPT ![i] = <<>>]

\* the request of invocation i is answered and the invocation runs on
ConcurrentRespond(i, resp) ==
  /\ pc[i] \in {"primary", "secondary"}
  /\ history' = [history EXCEPT ![i] = Append(@, resp)]
  /\ LET next == ResumeOf(tool[i], pc[i], args[i], result[i], resp)
     IN  /\ pc' = [pc EXCEPT ![i] = next.pc]
         /\ outcome' = [outcome EXCEPT ![i] = next.outcome]
         /\ result' = [result EXCEPT ![i] = next.result]
         /\ request' = [request EXCEPT ![i] = IF next.pc = "secondary" THEN next.request ELSE @]
         /\ sent' = [sent EXCEPT ![i] = IF next.pc = "secondary" THEN Append(@, next.request) ELSE @]
         /\ config' = IF next.pc = "secondary"
                      THEN ConfigAfterRequest(config, next.request) ELSE config
  /\ UNCHANGED <<tool, args>>

\* invocation i is over
ConcurrentFinish(i) ==
  /\ pc[i] = "done"
  /\ pc' = [pc EXCEPT ![i] = "idle"]
  /\ tool' = [tool EXCEPT ![i] = "none"]
  /\ args' = [args EXCEPT ![i] = NoArgs]
  /\ request' = [request EXCEPT ![i] = NoRequest]
  /\ sent' = [sent EXCEPT ![i] = <<>>]
  /\ history' = [history EXCEPT ![i] = <<>>]
  /\ outcome' = [outcome EXCEPT ![i] = "none"]
  /\ result' = [result EXCEPT ![i] = NoResult]
  /\ UNCHANGED config

\* two searches that differ in every parameter they send
ConcurrentSearchArgs ==
  {[query |-> "machine learning", entity_type |-> "works", year_from |-> Some(2024),
    year_to |-> None, country |-> None, institution |-> None, open_access |-> None,
    sort_by |-> "cited_by_count", limit |-> 10],
   [query |-> "ada", entity_type |-> "authors", year_from |-> None,
    year_to |-> None, country |-> None, institution |-> None, open_access |-> None,
    sort_by |-> "relevance", limit |-> 5]}

\* a fetch with a secondary request and one without
ConcurrentFetchArgs ==
  {[identifier |-> <<"0000-1">>, entity_type |-> "author", include_related |-> TRUE],
   [identifier |-> <<"W1">>, entity_type |-> "work", include_related |-> FALSE]}

NextConcurrent ==
  \/ \E i \in Invocations, a \in ConcurrentSearchArgs : ConcurrentCall(i, "search", a)
  \/ \E i \in Invocations, a \in ConcurrentFetchArgs : ConcurrentCall(i, "fetch", a)
  \/ \E i \in Invocations :
       pc[i] # "idle" /\ \E resp \in FewAnswers(request[i]) : ConcurrentRespond(i, resp)
  \/ \E i \in Invocations : ConcurrentFinish(i)

SpecConcurrent == InitConcurrent /\ [][NextConcurrent]_vars

(***************************************************************************)
(* Properties.                                                             *)
(***************************************************************************)
Last(s) == s[Len(s)]

\* the invocation of one of the two tools is over and got at least one answer
Answered == pc = "done" /\ tool \in {"search", "fetch"} /\ history # <<>>

\* an HTTP answer with one of the statuses
HasStatus(resp, statuses) == resp.kind = "http" /\ resp.status \in statuses

\* C1: a logical request answered 429 or 5xx is attempted again, up to three
\* attempts (so {429, 429, 200} ends in success after two sleeps), and after
\* three such answers the request ends in a returned error mapping, not in a
\* raised fault.  Stated of the finished invocation: one that ends on a 429 or
\* 5xx answer has made three attempts of that same request, all answered so,
\* and has returned a mapping with an error marker.
C1_RetriesUpToThreeAttempts ==
  (Answered /\ HasStatus(Last(history), {429, 500})) =>
     /\ Len(history) >= 3
     /\ \A i \in (Len(history) - 2)..Len(history) :
          /\ HasStatus(history[i], {429, 500})
          /\ sent[i] = sent[Len(sent)]
     /\ outcome = "returned"
     /\ "error" \in DOMAIN result

\* the network faults C2 names: HTTP 4xx, HTTP 5xx, connection failure, timeout
NetworkFault(resp) ==
  \/ HasStatus(resp, {400, 404, 429, 500})
  \/ resp.kind \in {"conn", "timeout"}

\* a success: the API answers with complete records
CompleteAnswer(resp) ==
  /\ HasStatus(resp, {200})
  /\ resp.json
  /\ \E c \in {ENTITY_TYPES[k] : k \in DOMAIN ENTITY_TYPES} :
       resp.body \in {JObj(Sample(c)), ListBody(<<>>), ListBody(<<JObj(Sample(c))>>)}

\* C2: every invocation of search_openalex and fetch_openalex ends by
\* returning a mapping, whatever the network did (HTTP 4xx, HTTP 5xx,
\* connection failure, timeout, success); after a failure the mapping
\* carries an error marker; no network fault leaves the tool as an exception.
C2_EveryOutcomeReturnsMapping ==
  (Answered /\ \A i \in 1..Len(history) : NetworkFault(history[i]) \/ CompleteAnswer(history[i])) =>
     /\ outcome = "returned"
     /\ NetworkFault(Last(history)) => "error" \in DOMAIN result

\* C3: a request answered with a 4xx other than 429 is attempted exactly
\* once, and the caller receives an error mapping with the status code, an
\* error_type tag and a suggestion.
C3_ClientErrorIsStructured ==
  (Answered /\ HasStatus(Last(history), {400, 404})) =>
     /\ Len(sent) = Len(history)
     /\ \A i \in 1..(Len(sent) - 1) : sent[i] # sent[Len(sent)]
     /\ outcome = "returned"
     /\ {"status_code", "error_type", "suggestion"} \subseteq DOMAIN result

\* C4: batch fetch with 0 or with more than 50 identifiers raises a local
\* validation fault and makes no network call; with exactly 50 it is not
\* rejected, makes exactly one network call whose filter is one OR-clause
\* over all 50 identifiers, and returns when that call succeeds.
C4_BatchSizeValidation ==
  tool = "batch" =>
    LET n == Len(args.identifiers)
    IN  /\ (n = 0 \/ n > 50) =>
             /\ pc = "done"
             /\ outcome = "raised"
             /\ result = [exc |-> "ToolError"]
             /\ sent = <<>>
             /\ history = <<>>
        /\ n = 50 =>
             /\ Len(sent) = 1
             /\ sent[1].params.filter.some
             /\ Len(sent[1].params.filter.v) = 1
             /\ sent[1].params.filter.v[1].anyOf = args.identifiers
             /\ Len(sent[1].params.filter.v[1].anyOf) = 50
             /\ (pc = "done" /\ HasStatus(Last(history), {200})) => outcome = "returned"

\* a batch of exactly 50 has made its one call and returned
C4_Witness ==
  /\ tool = "batch"
  /\ Len(args.identifiers) = 50
  /\ pc = "done"
  /\ outcome = "returned"
  /\ Len(sent) = 1

\* the identifier fetch_openalex has put in the request path
SentId == sent[1].id.v

\* fetch_openalex has normalised its identifier and issued the request
Fetched == tool = "fetch" /\ sent # <<>>

\* C5: normalising the normalised identifier again yields the same string,
\* for every entity type and every identifier.
C5_NormalizeIsIdempotent ==
  Fetched => NormalizeId(args.entity_type, SentId) = SentId

\* the resolver prefixes C6 lists: none, "doi.org/", "http://doi.org/",
\* "https://dx.doi.org/", "https://doi.org/"
ResolverPrefixes ==
  {<<>>, <<"doi.org/">>, <<"http://", "doi.org/">>, <<"https://", "dx.doi.org/">>,
   <<"https://", "doi.org/">>}

\* C6: for entity type work a DOI, whatever resolver prefix it carries, is
\* rewritten to "https://doi.org/<doi>" with the resolver host exactly once;
\* for any other entity type it is not rewritten.
C6_DoiIsCanonical ==
  (Fetched /\ \E p \in ResolverPrefixes : StripCatalog(args.identifier) = p \o <<"10.1/x">>) =>
     IF args.entity_type = "work"
     THEN /\ SentId = <<"https://", "doi.org/", "10.1/x">>
          /\ DoiHostCount(SentId) = 1
     ELSE SentId = StripCatalog(args.identifier)

\* the trimmed input with its leading catalog URL prefix removed
TrimmedBare ==
  LET trimmed == Strip(args.identifier)
  IN  IF StartsWith(trimmed, CatalogPrefix)
      THEN SubSeq(trimmed, Len(CatalogPrefix) + 1, Len(trimmed))
      ELSE trimmed

TrimmedWithoutCatalog ==
  LET trimmed == Strip(args.identifier)
  IN  IF trimmed # <<>> /\ trimmed[1] = "https://openalex.org/"
      THEN SelectSeq(trimmed, LAMBDA tok : tok # "https://openalex.org/")
      ELSE trimmed

\* the stripped identifier looks like a DOI to the work branch
LooksLikeDoi(s) ==
  \/ s # <<>> /\ s[1] = "10.1/x"
  \/ \E i \in 1..Len(s) : s[i] \in {"doi.org/", "dx.doi.org/"}

Searched == tool = "search" /\ sent # <<>>

\* the year clauses among the filters of the request
YearClauses ==
  IF sent[1].params.filter.some
  THEN SelectSeq(sent[1].params.filter.v, LAMBDA c : c.field = "publication_year")
  ELSE <<>>

\* C8: the year clause is emitted only for works; with both bounds it is
\* "publication_year:<from>-<to>"; with only year_from it bounds the year
\* from below by year_from, with only year_to from above by year_to; a
\* supplied bound yields a clause whatever its integer value, 0 included.
C8_YearClauseForEverySuppliedBound ==
  Searched =>
    IF args.entity_type # "works" THEN YearClauses = <<>>
    ELSE /\ (args.year_from.some /\ args.year_to.some) =>
              YearClauses = <<[field |-> "publication_year",
                               lo |-> args.year_from.v, hi |-> args.year_to.v]>>
         /\ (args.year_from.some /\ ~args.year_to.some) =>
              Len(YearClauses) = 1 /\ YearClauses[1].lo = args.year_from.v
         /\ (~args.year_from.some /\ args.year_to.some) =>
              Len(YearClauses) = 1 /\ YearClauses[1].hi = args.year_to.v
         /\ (~args.year_from.some /\ ~args.year_to.some) => YearClauses = <<>>

\* search(query="machine learning", entity_type="works", year_from=2024,
\* sort_by="cited_by_count"), with any limit
Scenario ==
  /\ Searched
  /\ args.query = "machine learning"
  /\ args.entity_type = "works"
  /\ args.year_from = Some(2024)
  /\ args.year_to = None
  /\ args.country = None
  /\ args.institution = None
  /\ args.open_access = None
  /\ args.sort_by = "cited_by_count"

\* the search has returned its list of results
ReturnedResults ==
  pc = "done" /\ outcome = "returned" /\ "results" \in DOMAIN result

\* C9: the scenario builds search = "machine learning", filter =
\* "publication_year:2024-<current_year>", sort = "cited_by_count:desc" and a
\* per-page of at most 50, for every limit; and every element of the list it
\* returns has a non-null id and title when the record it was made from has
\* a non-null id and title.
C9_ScenarioParamsAndResults ==
  Scenario =>
    /\ sent[1].params.search = Some("machine learning")
    /\ sent[1].params.filter =
         Some(<<[field |-> "publication_year", lo |-> 2024, hi |-> CurrentYear]>>)
    /\ sent[1].params.sort = Some("cited_by_count:desc")
    /\ sent[1].params.per_page.some
    /\ sent[1].params.per_page.v <= 50
    /\ ReturnedResults =>
         /\ Len(result.results.l) = Len(Last(history).body.o.results.l)
         /\ \A i \in 1..Len(result.results.l) :
              LET record == Last(history).body.o.results.l[i].o
                  brief == result.results.l[i].o
              IN  (~IsNull(Get(record, "id")) /\ ~IsNull(Get(record, "title"))) =>
                     /\ "id" \in DOMAIN brief /\ ~IsNull(brief.id)
                     /\ "title" \in DOMAIN brief /\ ~IsNull(brief.title)

\* the scenario with a limit above the maximum has asked for 50 per page and
\* returned two briefs
C9_Witness ==
  /\ Scenario
  /\ args.limit = 51
  /\ sent[1].params.per_page = Some(50)
  /\ ReturnedResults
  /\ Len(result.results.l) = 2
  /\ result.results.l[1].o.id = Str("W1")

\* the sort key is one the entity type supports
ValidSortKey ==
  \/ args.sort_by = "cited_by_count"
  \/ args.sort_by = "publication_date" /\ args.entity_type = "works"
  \/ args.sort_by = "works_count" /\ args.entity_type # "works"

\* C10: a convenience sort key is mapped to "<field>:desc" only when it is
\* valid for the entity type; publication_date for a non-works type and
\* works_count for works send no sort parameter, and relevance never sends
\* one.
C10_SortKeyOnlyWhenValid ==
  Searched =>
    /\ ValidSortKey =>
         sent[1].params.sort \in
           {Some("cited_by_count:desc"), Some("publication_date:desc"), Some("works_count:desc")}
    /\ sent[1].params.sort.some =>
         /\ ValidSortKey
         /\ args.sort_by = "cited_by_count" => sent[1].params.sort.v = "cited_by_count:desc"
         /\ args.sort_by = "publication_date" => sent[1].params.sort.v = "publication_date:desc"
         /\ args.sort_by = "works_count" => sent[1].params.sort.v = "works_count:desc"
    /\ (args.sort_by = "publication_date" /\ args.entity_type # "works") =>
         ~sent[1].params.sort.some
    /\ (args.sort_by = "works_count" /\ args.entity_type = "works") =>
         ~sent[1].params.sort.some
    /\ args.sort_by = "relevance" => ~sent[1].params.sort.some

\* a search of authors by publication_date has been sent without a sort
C10_Witness ==
  /\ Searched
  /\ args.entity_type = "authors"
  /\ args.sort_by = "publication_date"
  /\ sent[1].params.sort = None
  /\ pc = "done"

\* the filters of the search request, none when no filter parameter is sent
FilterOf ==
  IF sent[1].params.filter.some THEN sent[1].params.filter.v ELSE <<>>

\* the field paths a country clause is put on
CountryPaths ==
  {"authorships.countries", "affiliations.institution.country_code", "country_code"}

\* the country clauses among the filters of the request
CountryClauses == SelectSeq(FilterOf, LAMBDA c : c.field \in CountryPaths)

\* C11: a country code produces one clause, on authorships.countries for
\* works, on affiliations.institution.country_code for authors and on
\* country_code for institutions, with the code in upper case; for every
\* other entity type it produces no clause.
C11_CountryClausePerEntityType ==
  (Searched /\ args.country.some /\ args.country.v # "") =>
    LET code == IF args.country.v = "cn" THEN "CN" ELSE "US"
    IN  CASE args.entity_type = "works" ->
               CountryClauses = <<[field |-> "authorships.countries", value |-> code]>>
          [] args.entity_type = "authors" ->
               CountryClauses =
                 <<[field |-> "affiliations.institution.country_code", value |-> code]>>
          [] args.entity_type = "institutions" ->
               CountryClauses = <<[field |-> "country_code", value |-> code]>>
          [] OTHER -> CountryClauses = <<>>

\* a search of authors in "cn" has been sent with the code in upper case
C11_Witness ==
  /\ Searched
  /\ args.entity_type = "authors"
  /\ args.country = Some("cn")
  /\ \E i \in 1..Len(FilterOf) :
       FilterOf[i] = [field |-> "affiliations.institution.country_code", value |-> "CN"]

\* the open-access clauses among the filters of the request
OpenAccessClauses == SelectSeq(FilterOf, LAMBDA c : c.field = "is_oa")

\* C12: for works a true open_access flag produces "is_oa:true" and a false
\* one "is_oa:false" (a false flag is not absent); for every other entity
\* type no is_oa clause is emitted.
C12_OpenAccessClauseWorksOnly ==
  Searched =>
    IF args.entity_type = "works"
    THEN /\ args.open_access = Some(TRUE) =>
              OpenAccessClauses = <<[field |-> "is_oa", value |-> "true"]>>
         /\ args.open_access = Some(FALSE) =>
              OpenAccessClauses = <<[field |-> "is_oa", value |-> "false"]>>
         /\ args.open_access = None => OpenAccessClauses = <<>>
    ELSE OpenAccessClauses = <<>>

\* a search of works with open_access=false has been sent with "is_oa:false"
C12_Witness ==
  /\ Searched
  /\ args.entity_type = "works"
  /\ args.open_access = Some(FALSE)
  /\ OpenAccessClauses = <<[field |-> "is_oa", value |-> "false"]>>

\* how often word has position p in the index
Occurrences(index, word, p) ==
  Cardinality({j \in 1..Len(index.o[word].l) : index.o[word].l[j].n = p})

\* the words at position p, in the key order of the index
RECURSIVE WordsAt(_, _, _)
WordsAt(index, order, p) ==
  IF order = <<>> THEN <<>>
  ELSE [i \in 1..Occurrences(index, order[1], p) |-> order[1]]
       \o WordsAt(index, Tail(order), p)

\* the words at the positions 0 .. p, position by position
RECURSIVE WordsUpTo(_, _)
WordsUpTo(index, p) ==
  IF p < 0 THEN <<>>
  ELSE WordsUpTo(index, p - 1) \o WordsAt(index, index.order, p)

\* words with one blank between neighbours
Spaced(words) ==
  IF words = <<>> THEN <<>>
  ELSE [i \in 1..(2 * Len(words) - 1) |-> IF i % 2 = 1 THEN words[(i + 1) \div 2] ELSE " "]

\* the index of the work the fetch was answered with
AnsweredIndex == Get(Last(history).body.o, "abstract_inverted_index")

\* a work has been fetched and formatted
FetchedAbstract ==
  /\ tool = "fetch"
  /\ pc = "done"
  /\ outcome = "returned"
  /\ "abstract" \in DOMAIN result

\* C13: the reconstructed abstract is the words of the index by ascending
\* position, one per (word, position) pair, words of one position in the
\* key order of the index, joined by single blanks; {"the":[0,3],"cat":[1]}
\* gives "the cat the"; an absent, null or empty index gives null; the
\* abstract is a function of the index alone.
C13_AbstractByPosition ==
  FetchedAbstract =>
    /\ result.abstract =
         IF IsNull(AnsweredIndex) \/ DOMAIN AnsweredIndex.o = {}
         THEN JNull
         ELSE JStr(Spaced(WordsUpTo(AnsweredIndex, MaxPos)))
    /\ AnsweredIndex = JIndex(<<"the", "cat">>, [the |-> <<0, 3>>, cat |-> <<1>>]) =>
         result.abstract = JStr(<<"the", " ", "cat", " ", "the">>)

\* two words share position 1 and the abstract keeps them in key order,
\* behind the word of position 0 that the index lists last
C13_Witness ==
  /\ FetchedAbstract
  /\ AnsweredIndex = JIndex(<<"cat", "the">>, [the |-> <<1, 0>>, cat |-> <<1>>])
  /\ result.abstract = JStr(<<"the", " ", "cat", " ", "the">>)

\* a search of works has been answered with a page of records
WorksPage ==
  /\ tool = "search"
  /\ args.entity_type = "works"
  /\ pc = "done"
  /\ HasStatus(Last(history), {200})
  /\ Last(history).json

\* the records of the page
PageRecords == Last(history).body.o.results.l

\* a complete work record, but for its authorships key
LacksAuthorshipsOnly(record) ==
  /\ "authorships" \notin DOMAIN record.o
  /\ With(record.o, "authorships", JList(<<SampleAuthorship>>)) = SampleWork

NamedOptionalFields ==
  {"id", "authorships", "open_access", "primary_location", "biblio",
   "primary_topic", "summary_stats", "geo", "keywords"}

\* a complete record of some collection, or one with a named optional field
\* absent or null
DegradedRecord(v) ==
  /\ IsObj(v)
  /\ \E c \in {ENTITY_TYPES[k] : k \in DOMAIN ENTITY_TYPES} :
       \/ v.o = Sample(c)
       \/ \E k \in NamedOptionalFields \cap DOMAIN Sample(c) :
            v.o \in {Without(Sample(c), k), WithNull(Sample(c), k)}

\* a 200 whose body is such a record, or a page of such records
DegradedAnswer(resp) ==
  /\ HasStatus(resp, {200})
  /\ resp.json
  /\ \/ DegradedRecord(resp.body)
     \/ /\ "results" \in DOMAIN resp.body.o
        /\ \A i \in 1..Len(resp.body.o.results.l) : DegradedRecord(resp.body.o.results.l[i])

\* C15: whatever optional field of a raw record is absent or null, the
\* brief and the full projection return a mapping and do not raise; a field
\* that cannot be read is null in the output and an absent list is an empty
\* list.
C15_DegradedRecordsNeverRaise ==
  (Answered /\ \A i \in 1..Len(history) : DegradedAnswer(history[i])) =>
     /\ outcome = "returned"
     /\ (tool = "fetch" /\ args.entity_type = "work"
         /\ "authorships" \notin DOMAIN history[1].body.o) =>
           result.authors = JList(<<>>)

\* the ten entity types of C16: singular spelling, plural spelling
Spellings ==
  {<<"work", "works">>, <<"author", "authors">>, <<"source", "sources">>,
   <<"institution", "institutions">>, <<"topic", "topics">>,
   <<"publisher", "publishers">>, <<"funder", "funders">>,
   <<"keyword", "keywords">>, <<"continent", "continents">>,
   <<"country", "countries">>}

\* the collection of a spelling: the plural of its entity type
CollectionOf(spelling) ==
  (CHOOSE pair \in Spellings : spelling \in {pair[1], pair[2]})[2]

\* the tool was called with a spelling of one of the ten entity types
CalledWithSpelling ==
  /\ tool \in {"search", "fetch"}
  /\ \E pair \in Spellings : args.entity_type \in {pair[1], pair[2]}

\* the invocation was refused: an error mapping and no request
Refused ==
  /\ pc = "done"
  /\ outcome = "returned"
  /\ "error" \in DOMAIN result
  /\ sent = <<>>

WithMailto(params) ==
  [k \in DOMAIN params \cup {"mailto"} |->
     IF k = "mailto" THEN Some("openalex-mcp@example.com") ELSE params[k]]

\* C17: under any interleaving of concurrent invocations the configuration
\* stays what it was at startup; the parameters of a request are the
\* call's own parameters merged with DEFAULT_PARAMS; and what an invocation
\* sends and returns is determined by its own arguments and its own answers:
\* two invocations with the same tool, arguments and answers have sent the
\* same requests and have the same result.
C17_InvocationsShareNothing ==
  /\ config = [BASE_URL |-> "https://api.openalex.org",
               DEFAULT_PARAMS |-> [mailto |-> Some("openalex-mcp@example.com")]]
  /\ \A i \in Invocations :
       sent[i] # <<>> =>
         sent[i][1].params =
           WithMailto(IF tool[i] = "search" THEN SearchParams(args[i]) ELSE NoParams)
  /\ \A i \in Invocations, j \in Invocations :
       (tool[i] = tool[j] /\ args[i] = args[j] /\ history[i] = history[j]) =>
          /\ sent[i] = sent[j]
          /\ pc[i] = pc[j]
          /\ outcome[i] = outcome[j]
          /\ result[i] = result[j]

\* a search is in flight while a fetch, called after it, has got its entity
\* and is waiting for its related works
C17_Witness ==
  /\ tool[1] = "search" /\ pc[1] = "primary"
  /\ sent[1][1].params.sort = Some("cited_by_count:desc")
  /\ tool[2] = "fetch" /\ pc[2] = "secondary"
  /\ Len(sent[2]) = 2
  /\ sent[2][1].params.sort = None
  /\ sent[2][1].params.search = None

\* the field paths an institution clause is put on
InstitutionPaths ==
  {"authorships.institutions.display_name.search",
   "affiliations.institution.display_name.search"}

\* the institution clauses among the filters of the request
InstitutionClauses == SelectSeq(FilterOf, LAMBDA c : c.field \in InstitutionPaths)

\* 1 when the condition holds, else 0
Count(condition) == IF condition THEN 1 ELSE 0

\* the number of clauses the convenience parameters of the call derive
DerivedClauses ==
  LET year == \/ args.year_from.some /\ args.year_from.v # 0
              \/ args.year_to.some /\ args.year_to.v # 0
      country == args.country.some /\ args.country.v # ""
      institution == args.institution.some /\ args.institution.v # ""
  IN  CASE args.entity_type = "works" ->
             Count(year) + Count(args.open_access.some) + Count(country) + Count(institution)
        [] args.entity_type = "authors" -> Count(country) + Count(institution)
        [] args.entity_type = "institutions" -> Count(country)
        [] OTHER -> 0

\* C18: the filter parameter, when sent, is the derived clauses in the order
\* year, open access, country, institution, and nothing else; when no
\* clause is derived no filter parameter is sent.
C18_FilterIsClausesInOrder ==
  Searched =>
    /\ FilterOf = YearClauses \o OpenAccessClauses \o CountryClauses \o InstitutionClauses
    /\ Len(FilterOf) = DerivedClauses
    /\ sent[1].params.filter.some <=> DerivedClauses > 0
    /\ args.entity_type \notin {"works", "authors", "institutions"} =>
         sent[1].params.filter = None

\* a search of works with all four clauses has been sent
C18_Witness ==
  /\ Searched
  /\ args.entity_type = "works"
  /\ Len(FilterOf) = 4
  /\ FilterOf[1].field = "publication_year"
  /\ FilterOf[2].field = "is_oa"
  /\ FilterOf[3].field = "authorships.countries"
  /\ FilterOf[4].field = "authorships.institutions.display_name.search"

\* the fetch was called with include_related for an author
RelatedOfAuthor ==
  /\ Fetched
  /\ args.include_related
  /\ args.entity_type = "author"

\* C19: with include_related an author fetch issues, after the primary
\* request has been answered with the author, one secondary request to
\* works with filter "author.id:<id of the author>", sort
\* "cited_by_count:desc" and per-page 5, and attaches the reshaped results
\* as top_works; without include_related, and for work, publisher, funder,
\* continent and country, there is no secondary request and no related key.
C19_RelatedWorksOfAuthor ==
  /\ RelatedOfAuthor =>
       /\ Len(sent) <= 2
       /\ (history # <<>> /\ history[1] = Ok(JObj(SampleAuthor))) => Len(sent) = 2
       /\ Len(sent) = 2 =>
            /\ HasStatus(history[1], {200})
            /\ sent[2].collection = "works"
            /\ sent[2].id = None
            /\ sent[2].params.filter =
                 Some(<<[field |-> "author.id", ref |-> history[1].body.o.id]>>)
            /\ sent[2].params.sort = Some("cited_by_count:desc")
            /\ sent[2].params.per_page = Some(5)
       /\ (pc = "done" /\ outcome = "returned" /\ Len(history) = 2) =>
            /\ HasStatus(history[2], {400, 404, 429, 500}) <=> "error" \in DOMAIN result
            /\ HasStatus(history[2], {200}) =>
                 /\ "top_works" \in DOMAIN result
                 /\ "top_authors" \notin DOMAIN result
                 /\ Len(result.top_works.l) = Len(history[2].body.o.results.l)
                 /\ \A i \in 1..Len(result.top_works.l) :
                      /\ DOMAIN result.top_works.l[i].o =
                           {"id", "title", "doi", "cited_by_count", "journal"}
                      /\ result.top_works.l[i].o.title =
                           Get(history[2].body.o.results.l[i].o, "title")
  /\ (Fetched /\ (~args.include_related
                  \/ args.entity_type \in {"work", "publisher", "funder", "continent", "country"})) =>
       /\ Len(sent) = 1
       /\ DOMAIN result \cap {"top_works", "top_authors"} = {}

\* an author has been fetched with two related works attached
C19_Witness ==
  /\ RelatedOfAuthor
  /\ pc = "done"
  /\ outcome = "returned"
  /\ Len(sent) = 2
  /\ "top_works" \in DOMAIN result
  /\ Len(result.top_works.l) = 2
  /\ result.top_works.l[1].o.id = Str("W1")

\* the answer is no parsed body: an HTTP error, no JSON, no connection, a timeout
FailedAnswer(resp) == ~(HasStatus(resp, {200}) /\ resp.json)

\* the attempts of the invocation so far are one after the other and at
\* most two
AttemptsInOrder ==
  tool \in {"search", "fetch"} =>
    /\ Len(sent) <= 2
    /\ Len(history) <= Len(sent)
    /\ Len(sent) <= Len(history) + 1
    /\ pc \in {"primary", "secondary"} <=> Len(sent) = Len(history) + 1
    /\ pc # "idle"
    /\ tool = "search" =>
         Len(sent) = IF args.entity_type \in
                          {"works", "authors", "sources", "institutions", "topics",
                           "publishers", "funders", "continents", "countries"}
                     THEN 1 ELSE 0
    /\ Len(sent) = 2 => Len(history) >= 1 /\ ~FailedAnswer(history[1])
    /\ \A i \in 1..Len(history) : FailedAnswer(history[i]) => Len(sent) = i

\* C20: the attempts of one invocation are sequential and bounded: a search
\* makes exactly one attempt for a supported entity type and none
\* otherwise; a fetch makes its secondary request only after the primary
\* one has succeeded; no invocation makes more than two attempts or one
\* after a failed attempt; and every invocation terminates.
C20_AttemptsSequentialAndBounded ==
  /\ []AttemptsInOrder
  /\ (pc \in {"primary", "secondary"}) ~> (pc = "done")

\* a fetch has made its two attempts, the second after the first succeeded,
\* and is over
C20_Witness ==
  /\ tool = "fetch"
  /\ pc = "done"
  /\ Len(sent) = 2
  /\ Len(history) = 2
  /\ ~FailedAnswer(history[1])
  /\ FailedAnswer(history[2])

\* a fetch with include_related got its entity and then an HTTP error for
\* the related entities
SecondaryFailed ==
  /\ Fetched
  /\ args.include_related
  /\ Len(history) = 2
  /\ ~FailedAnswer(history[1])
  /\ HasStatus(history[2], {400, 404, 429, 500})

\* C21: when the primary request of a fetch with include_related succeeds
\* and the secondary request fails with an HTTP error, the invocation
\* returns an error mapping and nothing else: the entity already formatted
\* is dropped and none of its fields is in the result.
C21_SecondaryErrorDropsEntity ==
  SecondaryFailed =>
    /\ pc = "done"
    /\ outcome = "returned"
    /\ DOMAIN result = {"error"}
    /\ \A k \in DOMAIN history[1].body.o \cup {"name", "top_works", "top_authors"} :
         k \notin DOMAIN result

\* an author was fetched, the request for the top works was answered 500,
\* and the result is the error alone
C21_Witness ==
  /\ SecondaryFailed
  /\ args.entity_type = "author"
  /\ history[1] = Ok(JObj(SampleAuthor))
  /\ HasStatus(history[2], {500})
  /\ DOMAIN result = {"error"}
=============================================================================
